---- MODULE Spec2Model ----
(***************************************************************************)
(* Model of rocksdb-utils-lookup (src/src/utils.rs, src/src/error.rs):     *)
(* tune_options, force_compaction, force_compaction_cf and fetch_meta,     *)
(* together with the storage engine's background compaction threads that   *)
(* run beside the calling thread.                                          *)
(***************************************************************************)
EXTENDS Integers, Sequences, FiniteSets, TLC

\* ------------------------------------------------------------------ bounds
\* longest cf_names list handed to force_compaction_cf
MaxCfNames == 2
\* compactions the engine may already be running when the call starts
MaxInitRunning == 1
\* a wait is followed for this many sleep intervals
MaxClock == 2
\* the one long wait is followed for this many sleep intervals
MaxLongWait == 37
\* the sleeps of one wait overshoot by up to this many ms in total
MaxOversleep == 5
\* length of the write-ahead log file that is not empty, in bytes
MaxWalLen == 1
\* longest value stored in the "meta" column family, in bytes
MaxValueLen == 3
\* how often a caller tunes the same configuration again
MaxTuneCalls == 2

\* --------------------------------------------------------- program constants
\* std::thread::sleep(Duration::from_millis(100))
SleepMs == 100
\* last_logged.elapsed() > Duration::from_millis(1000)
LogIntervalMs == 1000

\* ------------------------------------------------------------------ options
None == <<>>
Some(x) == <<x>>
IsSome(o) == Len(o) = 1
Unwrap(o) == o[1]

Min(a, b) == IF a < b THEN a ELSE b

\* ------------------------------------------------------------------ errors
\* error::Error: the eight variants
ErrorVariants ==
    {"Open", "PropertyAccess", "PropertyNotSet", "ColumnFamily",
     "ReadData", "WalRemoval", "UnknownColumnFamily", "InvalidUtf8"}

NoResult == [kind |-> "none", variant |-> "", arg |-> ""]
OkUnit == [kind |-> "Ok", variant |-> "", arg |-> ""]
Err(variant, arg) == [kind |-> "Err", variant |-> variant, arg |-> arg]
\* Result::expect on an Err unwinds the calling thread
Panic(msg) == [kind |-> "Panic", variant |-> "", arg |-> msg]

\* ------------------------------------------------------------------ inputs
DbPath == "/data/rocksdb"
\* column families a database may hold, in the order list_cf reports them
DbChoices == {<<"default", "foo", "bar">>, <<"default", "foo">>}
\* names a caller may pass in cf_names
CfNameUniverse == {"foo", "bar"}
\* keys of the "meta" column family
Keys == {"gnomad-release", "genome-release"}
\* databases fetch_meta is called on: with and without a "meta" column family
MetaDbChoices == {<<"default", "meta">>, <<"default">>}
\* bytes stored values are made of: ASCII, continuation bytes, lead bytes of
\* two- and three-byte chars, a surrogate lead, an overlong lead, 0xFF
ByteChoices == {65, 128, 130, 160, 169, 172, 192, 195, 226, 237, 255}

RECURSIVE SeqsUpTo(_, _)
SeqsUpTo(S, n) ==
    IF n = 0 THEN {<<>>}
    ELSE LET shorter == SeqsUpTo(S, n - 1)
         IN shorter \cup {Append(s, x) : s \in {t \in shorter : Len(t) = n - 1}, x \in S}

Range(s) == {s[i] : i \in 1..Len(s)}

\* what a key of the "meta" column family may hold
StoredValues == {None} \cup {Some(b) : b \in SeqsUpTo(ByteChoices, MaxValueLen)}

\* ------------------------------------------------------------------ state
VARIABLES
    op,                     \* the public function being called
    dbCfNames,              \* column families of the database, in list_cf order
    cf_names,               \* force_compaction_cf: the names to compact
    wait_msg_prefix,        \* Option<&str>
    remove_empty_wal_files, \* bool
    pc,                     \* position of the calling thread
    cfs,                    \* resolved column family handles
    issued,                 \* compaction requests handed to the engine, in order
    pending,                \* engine: compactions queued, not yet running
    running,                \* engine: compactions running
    reads,                  \* values the current poll has read (-1: not read)
    polled,                 \* whether any property was queried
    query,                  \* the last property query: which property, what answer
    now,                    \* the monotonic clock, in ms
    compaction_start,       \* Instant taken after the requests were issued
    last_logged,            \* Instant of the last progress message
    log,                    \* progress messages emitted by tracing::info!
    files,                  \* files below the database directory
    dirListed,              \* whether read_dir was called
    toScan,                 \* directory entries the iterator has not yielded yet
    removed,                \* files deleted by remove_file
    failure,                \* the engine or filesystem failure met, if any
    result,                 \* what the call returned
    listing,                \* the files below the database directory at the call
    horizon,                \* how long the wait of this call is followed, in ms
    store,                  \* the "meta" column family: key -> Option<bytes>
    key,                    \* fetch_meta: the key asked for
    fetched,                \* fetch_meta: the Option<String> inside Ok
    dbReads,                \* number of get_cf calls made
    options,                \* tune_options: the configuration being tuned
    wal_dir,                \* tune_options: Option<&str>
    tuneCalls               \* number of tune_options calls made on options

vars == <<op, dbCfNames, cf_names, wait_msg_prefix, remove_empty_wal_files, pc,
          cfs, issued, pending, running, reads, polled, query, now, compaction_start,
          last_logged, log, files, dirListed, toScan, removed, failure, result,
          listing, horizon, store, key, fetched, dbReads, options, wal_dir, tuneCalls>>

inputVars == <<op, dbCfNames, cf_names, wait_msg_prefix, remove_empty_wal_files>>
clockVars == <<now, compaction_start, last_logged, log>>
walVars == <<files, dirListed, toScan, removed>>
metaVars == <<store, key, fetched, dbReads>>
tuneVars == <<options, wal_dir, tuneCalls>>
engineVars == <<pending, running>>

\* ------------------------------------------------------------- file system
\* A file name is its sequence of dot-separated pieces with the dots kept:
\* "000004.log" is <<"000004", ".", "log">>, ".log" is <<".", "log">>.
LastDot(name) ==
    IF \E i \in 1..Len(name) : name[i] = "."
    THEN CHOOSE i \in 1..Len(name) :
            /\ name[i] = "."
            /\ \A j \in (i + 1)..Len(name) : name[j] # "."
    ELSE 0

\* Path::extension: the part after the last dot; None when there is no dot
\* or when the only dot is the leading one
Extension(name) ==
    LET d == LastDot(name)
    IN IF d <= 1 THEN None
       ELSE IF d = Len(name) THEN Some("")
       ELSE Some(name[d + 1])

\* the database directory: (parent directory, name, length, kind)
File(dir, name, len, kind) == [dir |-> dir, name |-> name, len |-> len, kind |-> kind]

Listing(walLen) ==
    { File("", <<"000004", ".", "log">>, 0, "file"),
      File("", <<"000005", ".", "log">>, 0, "file"),
      File("", <<"000007", ".", "log">>, walLen, "file"),
      File("", <<"000009", ".", "sst">>, 0, "file"),
      File("", <<"LOG">>, 0, "file"),
      File("", <<".", "log">>, 0, "file"),
      File("", <<"archive">>, 1, "dir"),
      File("archive", <<"000001", ".", "log">>, 0, "file") }

\* std::fs::read_dir: the entries directly under the directory; the iterator
\* yields them in an order the operating system chooses, so they are a set
\* and the scan takes any entry not yet yielded as the next one
ReadDirEntries(dir, fs) == {f \in dir : f \in fs /\ f.dir = ""}

\* variant: the length of the file is not looked at
IsWalAnyLength(entry) == Extension(entry.name) = Some("log")

\* the test of the cleanup loop on one entry, given its metadata
IsEmptyWal(entry) ==
    /\ Extension(entry.name) = Some("log")
    /\ entry.len = 0

\* ------------------------------------------------------------------ engine
COMPACTION_PENDING == "COMPACTION_PENDING"
NUM_RUNNING_COMPACTIONS == "NUM_RUNNING_COMPACTIONS"
Properties == {COMPACTION_PENDING, NUM_RUNNING_COMPACTIONS}

\* DB::property_int_value when the engine answers
PropertyValue(prop) == IF prop = COMPACTION_PENDING THEN pending ELSE running

\* DB::cf_handle
CfHandle(db, name) == IF name \in Range(db) THEN Some(name) ELSE None

\* a background thread picks up a queued compaction
EngineStart ==
    /\ pending > 0
    /\ pending' = pending - 1
    /\ running' = running + 1
    /\ UNCHANGED <<tuneVars, metaVars, listing, horizon, inputVars, pc, cfs, issued, reads, polled, query, clockVars, walVars,
                   failure, result>>

\* a running compaction completes
EngineFinish ==
    /\ running > 0
    /\ running' = running - 1
    /\ UNCHANGED <<tuneVars, metaVars, listing, horizon, inputVars, pc, cfs, issued, pending, reads, polled, query, clockVars,
                   walVars, failure, result>>

\* ----------------------------------------------------------- force_compaction
\* variant: a failure of the WAL cleanup is noted and the scan goes on
ReturnUnlessWalRemoval(r, why) ==
    IF r.kind = "Err" /\ r.variant = "WalRemoval" /\ pc = "scan"
    THEN pc' = pc /\ result' = result /\ failure' = why
    ELSE pc' = "done" /\ result' = r /\ failure' = why

\* how a call ends: with a value, or with a failure of the given kind
Return(r, why) ==
    /\ pc' = "done"
    /\ result' = r
    /\ failure' = why

\* DB::list_cf
ListCf ==
    /\ pc = "list_cf"
    /\ \/ /\ cf_names' = dbCfNames
          /\ pc' = "open"
          /\ UNCHANGED <<failure, result>>
       \/ /\ Return(Err("Open", DbPath), "list_cf")
          /\ UNCHANGED cf_names
    /\ UNCHANGED <<tuneVars, metaVars, listing, horizon, op, dbCfNames, wait_msg_prefix, remove_empty_wal_files, cfs,
                   issued, engineVars, reads, polled, query, clockVars, walVars>>

\* variant: the cleanup flag is passed as false
OpenCfNoCleanup ==
    /\ pc = "open"
    /\ \/ /\ pc' = "resolve"
          /\ remove_empty_wal_files' = FALSE
          /\ UNCHANGED <<failure, result>>
       \/ /\ Return(Err("Open", DbPath), "open")
          /\ UNCHANGED remove_empty_wal_files
    /\ UNCHANGED <<tuneVars, metaVars, listing, horizon, op, dbCfNames, cf_names, wait_msg_prefix, cfs, issued,
                   engineVars, reads, polled, query, clockVars, walVars>>

\* DB::open_cf_with_opts, then the call of force_compaction_cf(.., true)
OpenCf ==
    /\ pc = "open"
    /\ \/ /\ pc' = "resolve"
          /\ remove_empty_wal_files' = TRUE
          /\ UNCHANGED <<failure, result>>
       \/ /\ Return(Err("Open", DbPath), "open")
          /\ UNCHANGED remove_empty_wal_files
    /\ UNCHANGED <<tuneVars, metaVars, listing, horizon, op, dbCfNames, cf_names, wait_msg_prefix, cfs, issued,
                   engineVars, reads, polled, query, clockVars, walVars>>

\* -------------------------------------------------------- force_compaction_cf
\* cf_names.into_iter().map(cf_handle .. ok_or(ColumnFamily(name)))
\*     .collect::<Result<Vec<_>, _>>(): stops at the first Err
\* variant: names that do not resolve are skipped (filter_map instead of collect)
RECURSIVE CollectSkipMissing(_, _, _)
CollectSkipMissing(db, names, acc) ==
    IF names = <<>> THEN [ok |-> TRUE, cfs |-> acc, name |-> ""]
    ELSE LET h == CfHandle(db, Head(names))
         IN CollectSkipMissing(db, Tail(names),
                               IF IsSome(h) THEN Append(acc, Unwrap(h)) ELSE acc)

RECURSIVE Collect(_, _, _)
Collect(db, names, acc) ==
    IF names = <<>> THEN [ok |-> TRUE, cfs |-> acc, name |-> ""]
    ELSE LET h == CfHandle(db, Head(names))
         IN IF IsSome(h)
            THEN Collect(db, Tail(names), Append(acc, Unwrap(h)))
            ELSE [ok |-> FALSE, cfs |-> <<>>, name |-> Head(names)]

Resolve ==
    /\ pc = "resolve"
    /\ LET r == Collect(dbCfNames, cf_names, <<>>)
       IN IF r.ok
          THEN /\ cfs' = r.cfs
               /\ pc' = "compact"
               /\ UNCHANGED <<failure, result>>
          ELSE /\ Return(Err("ColumnFamily", r.name), "cf_handle")
               /\ UNCHANGED cfs
    /\ UNCHANGED <<tuneVars, metaVars, listing, horizon, inputVars, issued, engineVars, reads, polled, query, clockVars, walVars>>

\* variant: CompactOptions::default() is passed on as it is
CompactRequestDefault(cf) ==
    [cf |-> cf, begin |-> None, end |-> None,
     exclusive_manual_compaction |-> FALSE,
     bottommost_level_compaction |-> "IfHaveCompactionFilter"]

\* CompactOptions: exclusive manual compaction, bottommost level forced;
\* compact_range_cf_opt(cf, None, None, &compact_opt)
CompactRequest(cf) ==
    [cf |-> cf, begin |-> None, end |-> None,
     exclusive_manual_compaction |-> TRUE, bottommost_level_compaction |-> "Force"]

\* cfs.iter().for_each(..): one request per handle; the engine queues it
IssueCompaction ==
    /\ pc = "compact"
    /\ Len(issued) < Len(cfs)
    /\ issued' = Append(issued, CompactRequest(cfs[Len(issued) + 1]))
    /\ pending' = pending + 1
    /\ UNCHANGED <<tuneVars, metaVars, listing, horizon, inputVars, pc, cfs, running, reads, polled, query, clockVars, walVars,
                   failure, result>>

\* let compaction_start = Instant::now(); let mut last_logged = compaction_start;
StartWait ==
    /\ pc = "compact"
    /\ Len(issued) = Len(cfs)
    /\ compaction_start' = now
    /\ last_logged' = now
    /\ pc' = "poll_first"
    /\ UNCHANGED <<tuneVars, metaVars, listing, horizon, inputVars, cfs, issued, engineVars, reads, polled, query, now, log,
                   walVars, failure, result>>

\* variant: the running counter is read before the pending counter
PollOrderSwapped == <<"NUM_RUNNING_COMPACTIONS", "COMPACTION_PENDING">>

\* the two operands of the while condition, in evaluation order
PollOrder == <<COMPACTION_PENDING, NUM_RUNNING_COMPACTIONS>>

\* variant: the comparison is off by one
StillBusyAboveOne(v) == v > 1

\* variant: the comparison never turns false
StillBusyAlways(v) == v >= 0

\* the comparison applied to each counter: > 0
StillBusy(v) == v > 0

\* what property_int_value may answer: Ok(Some(v)), Ok(None), Err(e)
PropertyOutcomes == {"value", "not_set", "error"}

\* no property was queried yet
NoQuery == [prop |-> "", outcome |-> "none"]

\* variant: the second ok_or carries the name written for the first
PropertyNotSetArgCopied == <<"COMPACTION_PENDING", "COMPACTION_PENDING">>

\* the names given to PropertyNotSet by the two ok_or(..) of the condition
PropertyNotSetArg == <<"COMPACTION_PENDING", "NUM_RUNNING_COMPACTIONS">>

\* the || is short-circuit: the second operand is read only if the first
\* compares false; the loop is left when both compare false
\* variant: the cleanup runs whatever the flag says
AfterLoopAlwaysCleanup == "read_dir"

AfterLoop == IF remove_empty_wal_files THEN "read_dir" ELSE "done"

\* variant: both operands are evaluated on every poll (| in place of ||)
PollBoth(k) ==
    /\ pc = (IF k = 1 THEN "poll_first" ELSE "poll_second")
    /\ polled' = TRUE
    /\ \E outcome \in PropertyOutcomes :
         LET prop == PollOrder[k]
             v == PropertyValue(prop)
         IN /\ query' = [prop |-> prop, outcome |-> outcome]
            /\ CASE outcome = "error" ->
                      /\ Return(Err("PropertyAccess", ""), "property")
                      /\ UNCHANGED reads
                 [] outcome = "not_set" ->
                      /\ Return(Err("PropertyNotSet", PropertyNotSetArg[k]), "property")
                      /\ UNCHANGED reads
                 [] outcome = "value" ->
                      /\ reads' = [p \in Properties |->
                                     IF p = prop THEN v
                                     ELSE IF k = 1 THEN -1 ELSE reads[p]]
                      /\ IF k = 1
                         THEN pc' = "poll_second" /\ UNCHANGED <<failure, result>>
                         ELSE IF StillBusy(reads[PollOrder[1]]) \/ StillBusy(v)
                         THEN pc' = "sleep" /\ UNCHANGED <<failure, result>>
                         ELSE IF AfterLoop = "done"
                         THEN Return(OkUnit, "none")
                         ELSE pc' = AfterLoop /\ UNCHANGED <<failure, result>>
    /\ UNCHANGED <<tuneVars, metaVars, listing, horizon, inputVars, cfs, issued, engineVars, clockVars, walVars>>

Poll(k) ==
    /\ pc = (IF k = 1 THEN "poll_first" ELSE "poll_second")
    /\ polled' = TRUE
    /\ \E outcome \in PropertyOutcomes :
         LET prop == PollOrder[k]
             v == PropertyValue(prop)
         IN /\ query' = [prop |-> prop, outcome |-> outcome]
            /\ CASE outcome = "error" ->
                      /\ Return(Err("PropertyAccess", ""), "property")
                      /\ UNCHANGED reads
                 [] outcome = "not_set" ->
                      /\ Return(Err("PropertyNotSet", PropertyNotSetArg[k]), "property")
                      /\ UNCHANGED reads
                 [] outcome = "value" ->
                      /\ reads' = [p \in Properties |->
                                     IF p = prop THEN v
                                     ELSE IF k = 1 THEN -1 ELSE reads[p]]
                      /\ IF StillBusy(v)
                         THEN pc' = "sleep" /\ UNCHANGED <<failure, result>>
                         ELSE IF k = 1
                         THEN pc' = "poll_second" /\ UNCHANGED <<failure, result>>
                         ELSE IF AfterLoop = "done"
                         THEN Return(OkUnit, "none")
                         ELSE pc' = AfterLoop /\ UNCHANGED <<failure, result>>
    /\ UNCHANGED <<tuneVars, metaVars, listing, horizon, inputVars, cfs, issued, engineVars, clockVars, walVars>>

PollFirst == Poll(1)
PollSecond == Poll(2)

\* variant: >= in place of >
ShouldLogAtInterval(prefix, elapsed) == IsSome(prefix) /\ elapsed >= LogIntervalMs

\* if let Some(prefix) = wait_msg_prefix { if last_logged.elapsed() > 1000 ms
ShouldLog(prefix, elapsed) == IsSome(prefix) /\ elapsed > LogIntervalMs

\* by how much the sleeps of the wait have overshot in total when the clock
\* reads t (the total stays below one sleep interval)
Overslept(t) == (t - compaction_start) % SleepMs

\* variant: last_logged is not set again after a message
SleepAndLogNoReset ==
    /\ pc = "sleep"
    /\ \E over \in 0..MaxOversleep :
         LET t == now + SleepMs + over
         IN /\ Overslept(t) <= MaxOversleep
            /\ t - compaction_start <= horizon
            /\ now' = t
            /\ IF ShouldLog(wait_msg_prefix, t - last_logged)
               THEN log' = Append(log, [at |-> t,
                                        prefix |-> Unwrap(wait_msg_prefix),
                                        since |-> t - compaction_start])
               ELSE UNCHANGED log
            /\ UNCHANGED last_logged
    /\ pc' = "poll_first"
    /\ UNCHANGED <<tuneVars, metaVars, listing, horizon, inputVars, cfs, issued, engineVars, reads, polled, query,
                   compaction_start, walVars, failure, result>>

\* the loop body: sleep 100 ms or somewhat longer, then the progress message;
\* the wait is followed until the horizon of the call
SleepAndLog ==
    /\ pc = "sleep"
    /\ \E over \in 0..MaxOversleep :
         LET t == now + SleepMs + over
         IN /\ Overslept(t) <= MaxOversleep
            /\ t - compaction_start <= horizon
            /\ now' = t
            /\ IF ShouldLog(wait_msg_prefix, t - last_logged)
               THEN /\ log' = Append(log, [at |-> t,
                                           prefix |-> Unwrap(wait_msg_prefix),
                                           since |-> t - compaction_start])
                    /\ last_logged' = t
               ELSE UNCHANGED <<log, last_logged>>
    /\ pc' = "poll_first"
    /\ UNCHANGED <<tuneVars, metaVars, listing, horizon, inputVars, cfs, issued, engineVars, reads, polled, query,
                   compaction_start, walVars, failure, result>>

\* std::fs::read_dir(db.path())
ReadDir ==
    /\ pc = "read_dir"
    /\ dirListed' = TRUE
    /\ \/ /\ toScan' = ReadDirEntries(listing, files)
          /\ pc' = "scan"
          /\ UNCHANGED <<failure, result>>
       \/ /\ Return(Err("WalRemoval", ""), "read_dir")
          /\ UNCHANGED toScan
    /\ UNCHANGED <<tuneVars, metaVars, listing, horizon, inputVars, cfs, issued, engineVars, reads, polled, query, clockVars,
                   files, removed>>

\* what can go wrong on one directory entry
EntryOutcomes == {"fine", "entry_error", "metadata_error", "remove_error"}

\* one turn of `for entry in entries`, and the Ok(()) after the last.  The
\* iterator is asked for the next item on every turn, also after the last
\* entry; whenever it is asked it may yield an Err in place of an entry or of
\* the end of the directory, and entry.expect(..) then panics.
ScanEntry ==
    /\ pc = "scan"
    /\ IF toScan = {}
       THEN \/ /\ Return(OkUnit, "none")
               /\ UNCHANGED <<files, toScan, removed>>
            \/ /\ Return(Panic("cannot read directory entry"), "dir_entry")
               /\ UNCHANGED <<files, toScan, removed>>
       ELSE \E entry \in toScan, outcome \in EntryOutcomes :
                 CASE outcome = "entry_error" ->
                        \* entry.expect("cannot read directory entry")
                        /\ Return(Panic("cannot read directory entry"), "dir_entry")
                        /\ UNCHANGED <<files, toScan, removed>>
                   [] outcome = "metadata_error" ->
                        /\ Extension(entry.name) = Some("log")
                        /\ Return(Err("WalRemoval", ""), "metadata")
                        /\ UNCHANGED <<files, toScan, removed>>
                   [] outcome = "remove_error" ->
                        /\ IsEmptyWal(entry)
                        /\ Return(Err("WalRemoval", ""), "remove_file")
                        /\ UNCHANGED <<files, toScan, removed>>
                   [] outcome = "fine" ->
                        /\ toScan' = toScan \ {entry}
                        /\ IF IsEmptyWal(entry)
                           THEN /\ files' = files \ {entry}
                                /\ removed' = removed \cup {entry}
                           ELSE UNCHANGED <<files, removed>>
                        /\ UNCHANGED <<pc, failure, result>>
    /\ UNCHANGED <<tuneVars, metaVars, listing, horizon, inputVars, cfs, issued, engineVars, reads, polled, query, clockVars,
                   dirListed>>

\* ------------------------------------------------------------------ fetch_meta
\* String::from_utf8 validates the bytes as UTF-8 (core::str::from_utf8) and
\* yields the text they encode; a String is modelled as its sequence of chars
\* (Unicode scalar values).
IsCont(b) == b \in 128..191

\* the first char of a non-empty byte sequence: [ok, cp, width]
DecodeFirst(b) ==
    LET n == Len(b)
        b1 == b[1]
        bad == [ok |-> FALSE, cp |-> 0, width |-> 0]
    IN IF b1 < 128 THEN [ok |-> TRUE, cp |-> b1, width |-> 1]
       ELSE IF b1 \in 194..223
       THEN IF n >= 2 /\ IsCont(b[2])
            THEN [ok |-> TRUE, cp |-> (b1 - 192) * 64 + (b[2] - 128), width |-> 2]
            ELSE bad
       ELSE IF b1 \in 224..239
       THEN IF /\ n >= 3
               /\ IsCont(b[3])
               /\ (CASE b1 = 224 -> b[2] \in 160..191
                     [] b1 = 237 -> b[2] \in 128..159
                     [] OTHER -> IsCont(b[2]))
            THEN [ok |-> TRUE,
                  cp |-> (b1 - 224) * 4096 + (b[2] - 128) * 64 + (b[3] - 128),
                  width |-> 3]
            ELSE bad
       ELSE IF b1 \in 240..244
       THEN IF /\ n >= 4
               /\ IsCont(b[3])
               /\ IsCont(b[4])
               /\ (CASE b1 = 240 -> b[2] \in 144..191
                     [] b1 = 244 -> b[2] \in 128..143
                     [] OTHER -> IsCont(b[2]))
            THEN [ok |-> TRUE,
                  cp |-> (b1 - 240) * 262144 + (b[2] - 128) * 4096
                         + (b[3] - 128) * 64 + (b[4] - 128),
                  width |-> 4]
            ELSE bad
       ELSE bad

\* variant: every byte is taken as one char and nothing is rejected
FromBytesUnchecked(b) == Some(b)

\* String::from_utf8(bytes): Some(chars), or None for a FromUtf8Error
RECURSIVE FromUtf8(_)
FromUtf8(b) ==
    IF b = <<>> THEN Some(<<>>)
    ELSE LET d == DecodeFirst(b)
         IN IF ~d.ok THEN None
            ELSE LET rest == FromUtf8(SubSeq(b, d.width + 1, Len(b)))
                 IN IF IsSome(rest) THEN Some(<<d.cp>> \o Unwrap(rest)) ELSE None

\* variant: a key without a value is turned into an error (ok_or)
DecodeValueAbsentIsError(raw_data) ==
    IF ~IsSome(raw_data) THEN [ok |-> FALSE, value |-> None]
    ELSE LET s == FromUtf8(Unwrap(raw_data))
         IN IF IsSome(s) THEN [ok |-> TRUE, value |-> Some(Unwrap(s))]
            ELSE [ok |-> FALSE, value |-> None]

\* raw_data.map(|raw| String::from_utf8(raw).map_err(InvalidUtf8)).transpose()
DecodeValue(raw_data) ==
    IF ~IsSome(raw_data) THEN [ok |-> TRUE, value |-> None]
    ELSE LET s == FromUtf8(Unwrap(raw_data))
         IN IF IsSome(s) THEN [ok |-> TRUE, value |-> Some(Unwrap(s))]
            ELSE [ok |-> FALSE, value |-> None]

\* db.get_cf may fail inside the engine
ReadOutcomes == {"fine", "read_error"}

FetchMeta ==
    /\ pc = "fetch_meta"
    /\ IF ~IsSome(CfHandle(dbCfNames, "meta"))
       THEN /\ Return(Err("UnknownColumnFamily", ""), "cf_handle")
            /\ UNCHANGED <<fetched, dbReads>>
       ELSE /\ dbReads' = dbReads + 1
            /\ \E outcome \in ReadOutcomes :
                 IF outcome = "read_error"
                 THEN /\ Return(Err("ReadData", ""), "get_cf")
                      /\ UNCHANGED fetched
                 ELSE LET r == DecodeValue(store[key])
                      IN IF r.ok
                         THEN /\ Return(OkUnit, "none")
                              /\ fetched' = r.value
                         ELSE /\ Return(Err("InvalidUtf8", ""), "from_utf8")
                              /\ UNCHANGED fetched
    /\ UNCHANGED <<tuneVars, store, key, listing, horizon, inputVars, cfs, issued, engineVars, reads,
                   polled, query, clockVars, walVars>>

\* ---------------------------------------------------------------- tune_options
\* rocksdb::Options is a record of the knobs tune_options touches.  Each setter
\* is modelled by what the RocksDB call behind it assigns.  Sizes are bytes;
\* max_compaction_bytes (1 << 60 after prepare_for_bulk_load) is kept as its
\* base-2 logarithm.
Shl(a, k) == a * 2^k

\* BlockBasedOptions::default() with the seven settings of tune_options
TunedBlockOpts ==
    [index_type |-> "TwoLevelIndexSearch",
     data_block_index_type |-> "BinarySearch",
     bloom_bits_per_key |-> 10,
     bloom_block_based |-> FALSE,
     partition_filters |-> TRUE,
     metadata_block_size |-> 4096,
     cache_index_and_filter_blocks |-> TRUE,
     pin_top_level_index_and_filter |-> TRUE,
     pin_l0_filter_and_index_blocks_in_cache |-> TRUE,
     block_cache_mb |-> 0]

\* Options::PrepareForBulkLoad
PrepareForBulkLoad(o) ==
    [o EXCEPT !.level0_file_num_compaction_trigger = Shl(1, 30),
              !.level0_slowdown_writes_trigger = Shl(1, 30),
              !.level0_stop_writes_trigger = Shl(1, 30),
              !.soft_pending_compaction_bytes_limit = 0,
              !.hard_pending_compaction_bytes_limit = 0,
              !.disable_auto_compactions = TRUE,
              !.max_compaction_bytes_log2 = 60,
              !.num_levels = 2,
              !.max_write_buffer_number = 6,
              !.min_write_buffer_number_to_merge = 1,
              !.max_background_flushes = 4,
              !.max_background_compactions = 2,
              !.target_file_size_base = 256 * 1024 * 1024]

SetMaxBackgroundJobs(o, n) == [o EXCEPT !.max_background_jobs = n]

SetMaxSubcompactions(o, n) == [o EXCEPT !.max_subcompactions = n]

\* DBOptions::IncreaseParallelism(total_threads): assigns max_background_jobs
\* and sizes the two thread pools of the environment
IncreaseParallelism(o, total_threads) ==
    [o EXCEPT !.max_background_jobs = total_threads,
              !.env_low_priority_threads = total_threads,
              !.env_high_priority_threads = 1]

\* ColumnFamilyOptions::OptimizeLevelStyleCompaction(memtable_memory_budget)
OptimizeLevelStyleCompaction(o, budget) ==
    [o EXCEPT !.write_buffer_size = budget \div 4,
              !.min_write_buffer_number_to_merge = 2,
              !.max_write_buffer_number = 6,
              !.level0_file_num_compaction_trigger = 2,
              !.target_file_size_base = budget \div 8,
              !.max_bytes_for_level_base = budget,
              !.compaction_style = "Level",
              !.compression_per_level =
                  [i \in 1..o.num_levels |-> IF i <= 2 THEN "None" ELSE "Lz4"]]

\* set_min_write_buffer_number and set_min_write_buffer_number_to_merge both
\* assign min_write_buffer_number_to_merge
SetMinWriteBufferNumberToMerge(o, n) ==
    [o EXCEPT !.min_write_buffer_number_to_merge = n]

SetWriteBufferSize(o, n) == [o EXCEPT !.write_buffer_size = n]

SetTargetFileSizeBase(o, n) == [o EXCEPT !.target_file_size_base = n]

SetCompactionStyle(o, style) == [o EXCEPT !.compaction_style = style]

\* variant: the directory never reaches the configuration
SetWalDirDropped(o, dir) == o

SetWalDir(o, dir) == [o EXCEPT !.wal_dir = dir]

\* set_compression_per_level, set_bottommost_compression_options,
\* set_bottommost_compression_type, set_bottommost_zstd_max_train_bytes
SetCompression(o) ==
    [o EXCEPT !.compression_per_level = <<>>,
              !.bottommost_compression_opts =
                  [window_bits |-> -14, level |-> 10, strategy |-> 0,
                   max_dict_bytes |-> Shl(1, 14),
                   zstd_max_train_bytes |-> Shl(1, 22), enabled |-> TRUE],
              !.bottommost_compression = "Zstd"]

\* ColumnFamilyOptions::OptimizeForPointLookup(block_cache_size_mb)
OptimizeForPointLookup(o, block_cache_size_mb) ==
    [o EXCEPT !.table_factory =
                  [index_type |-> "BinarySearch",
                   data_block_index_type |-> "BinaryAndHash",
                   bloom_bits_per_key |-> 10,
                   bloom_block_based |-> FALSE,
                   partition_filters |-> FALSE,
                   metadata_block_size |-> 4096,
                   cache_index_and_filter_blocks |-> FALSE,
                   pin_top_level_index_and_filter |-> TRUE,
                   pin_l0_filter_and_index_blocks_in_cache |-> FALSE,
                   block_cache_mb |-> block_cache_size_mb],
              !.memtable_prefix_bloom_size_ratio_pct = 2,
              !.memtable_whole_key_filtering = TRUE]

SetBlockBasedTableFactory(o, block_opts) == [o EXCEPT !.table_factory = block_opts]

\* the statements of tune_options, in order
tune_options(base, dir) ==
    LET o1 == [base EXCEPT !.create_if_missing = TRUE,
                              !.create_missing_column_families = TRUE]
        o2 == PrepareForBulkLoad(o1)
        o3 == SetMaxBackgroundJobs(o2, 16)
        o4 == SetMaxSubcompactions(o3, 8)
        o5 == IncreaseParallelism(o4, 8)
        o6 == OptimizeLevelStyleCompaction(o5, Shl(1, 30))
        o7 == SetMinWriteBufferNumberToMerge(SetMinWriteBufferNumberToMerge(o6, 1), 1)
        o8 == SetWriteBufferSize(o7, Shl(1, 30))
        o9 == SetTargetFileSizeBase(o8, Shl(1, 30))
        o10 == SetCompactionStyle(o9, "Universal")
        o11 == IF IsSome(dir) THEN SetWalDir(o10, Unwrap(dir)) ELSE o10
        o12 == SetCompression(o11)
        o13 == OptimizeForPointLookup(o12, Shl(1, 26))
    IN SetBlockBasedTableFactory(o13, TunedBlockOpts)

\* rocksdb::Options::default()
DefaultOptions ==
    [create_if_missing |-> FALSE,
     create_missing_column_families |-> FALSE,
     level0_file_num_compaction_trigger |-> 4,
     level0_slowdown_writes_trigger |-> 20,
     level0_stop_writes_trigger |-> 36,
     soft_pending_compaction_bytes_limit |-> Shl(1, 30),
     hard_pending_compaction_bytes_limit |-> Shl(1, 30),
     disable_auto_compactions |-> FALSE,
     max_compaction_bytes_log2 |-> 0,
     num_levels |-> 7,
     max_write_buffer_number |-> 2,
     min_write_buffer_number_to_merge |-> 1,
     max_background_flushes |-> -1,
     max_background_compactions |-> -1,
     max_background_jobs |-> 2,
     max_subcompactions |-> 1,
     env_low_priority_threads |-> 1,
     env_high_priority_threads |-> 1,
     write_buffer_size |-> Shl(1, 26),
     target_file_size_base |-> Shl(1, 26),
     max_bytes_for_level_base |-> Shl(1, 28),
     compaction_style |-> "Level",
     compression_per_level |-> <<>>,
     bottommost_compression |-> "Disable",
     bottommost_compression_opts |->
         [window_bits |-> -14, level |-> 32767, strategy |-> 0,
          max_dict_bytes |-> 0, zstd_max_train_bytes |-> 0, enabled |-> FALSE],
     wal_dir |-> "",
     memtable_prefix_bloom_size_ratio_pct |-> 0,
     memtable_whole_key_filtering |-> FALSE,
     table_factory |->
         [index_type |-> "BinarySearch",
          data_block_index_type |-> "BinarySearch",
          bloom_bits_per_key |-> 0,
          bloom_block_based |-> FALSE,
          partition_filters |-> FALSE,
          metadata_block_size |-> 4096,
          cache_index_and_filter_blocks |-> FALSE,
          pin_top_level_index_and_filter |-> TRUE,
          pin_l0_filter_and_index_blocks_in_cache |-> FALSE,
          block_cache_mb |-> 8]]

\* base configurations a caller may pass: the default, with some knobs changed
BaseOptions ==
    {[DefaultOptions EXCEPT !.max_background_jobs = jobs,
                            !.max_subcompactions = sub,
                            !.write_buffer_size = wbs,
                            !.compaction_style = style,
                            !.num_levels = levels,
                            !.wal_dir = wal,
                            !.disable_auto_compactions = noauto] :
        jobs \in {2, 16, 32}, sub \in {1, 8}, wbs \in {Shl(1, 26), Shl(1, 30)},
        style \in {"Level", "Universal", "Fifo"}, levels \in {2, 7},
        wal \in {"", "/base/wal"}, noauto \in BOOLEAN}

WalDirChoices == {None, Some("/fast/wal"), Some("/base/wal")}

\* let tuned = tune_options(options, wal_dir); the caller may tune again
TuneOptions ==
    /\ pc = "tune_options"
    /\ tuneCalls < MaxTuneCalls
    /\ options' = tune_options(options, wal_dir)
    /\ tuneCalls' = tuneCalls + 1
    /\ UNCHANGED <<wal_dir, metaVars, listing, horizon, inputVars, pc, cfs, issued, engineVars,
                   reads, polled, query, clockVars, walVars, failure, result>>

\* ------------------------------------------------------------ specification
Prefixes == {None, Some("msg")}

\* the state of a database nothing has been asked of yet
IdleCompaction ==
    /\ cfs = <<>>
    /\ issued = <<>>
    /\ pending = 0
    /\ reads = [p \in Properties |-> -1]
    /\ polled = FALSE
    /\ query = NoQuery
    /\ now = 0
    /\ compaction_start = 0
    /\ last_logged = 0
    /\ log = <<>>
    /\ files = listing
    /\ dirListed = FALSE
    /\ toScan = {}
    /\ removed = {}
    /\ failure = "none"
    /\ result = NoResult

IdleMeta ==
    /\ store = [k \in Keys |-> None]
    /\ key = "gnomad-release"
    /\ fetched = None
    /\ dbReads = 0

IdleTune ==
    /\ options = DefaultOptions
    /\ wal_dir = None
    /\ tuneCalls = 0

\* force_compaction(path, options, wait_msg_prefix)
InitForceCompaction ==
    /\ op = "force_compaction"
    /\ pc = "list_cf"
    /\ dbCfNames \in DbChoices
    /\ cf_names = <<>>
    /\ wait_msg_prefix \in Prefixes
    /\ remove_empty_wal_files = FALSE
    /\ running \in 0..MaxInitRunning
    /\ listing = Listing(MaxWalLen)
    /\ horizon = MaxClock * SleepMs
    /\ IdleCompaction /\ IdleMeta /\ IdleTune

\* force_compaction_cf(db, cf_names, wait_msg_prefix, remove_empty_wal_files)
InitForceCompactionCf ==
    /\ op = "force_compaction_cf"
    /\ pc = "resolve"
    /\ dbCfNames \in DbChoices
    /\ cf_names \in SeqsUpTo(CfNameUniverse, MaxCfNames)
    /\ wait_msg_prefix \in Prefixes
    /\ remove_empty_wal_files \in BOOLEAN
    /\ running \in 0..MaxInitRunning
    /\ listing = Listing(MaxWalLen)
    /\ horizon = MaxClock * SleepMs
    /\ IdleCompaction /\ IdleMeta /\ IdleTune

\* force_compaction_cf(db, ["foo"], wait_msg_prefix, false) on a database whose
\* compaction may take long
InitLongWait ==
    /\ op = "force_compaction_cf"
    /\ pc = "resolve"
    /\ dbCfNames = <<"default", "foo", "bar">>
    /\ cf_names = <<"foo">>
    /\ wait_msg_prefix \in Prefixes
    /\ remove_empty_wal_files = FALSE
    /\ running = 0
    /\ listing = Listing(MaxWalLen)
    /\ horizon = MaxLongWait * SleepMs
    /\ IdleCompaction /\ IdleMeta /\ IdleTune

\* fetch_meta(db, key)
InitFetchMeta ==
    /\ op = "fetch_meta"
    /\ pc = "fetch_meta"
    /\ dbCfNames \in MetaDbChoices
    /\ \E k \in Keys, v \in StoredValues :
         store = [j \in Keys |-> IF j = k THEN v ELSE None]
    /\ key \in Keys
    /\ fetched = None
    /\ dbReads = 0
    /\ cf_names = <<>>
    /\ wait_msg_prefix = None
    /\ remove_empty_wal_files = FALSE
    /\ running = 0
    /\ listing = Listing(MaxWalLen)
    /\ horizon = MaxClock * SleepMs
    /\ IdleCompaction /\ IdleTune

\* tune_options(options, wal_dir)
InitTuneOptions ==
    /\ op = "tune_options"
    /\ pc = "tune_options"
    /\ options \in BaseOptions
    /\ wal_dir \in WalDirChoices
    /\ tuneCalls = 0
    /\ dbCfNames = <<"default">>
    /\ cf_names = <<>>
    /\ wait_msg_prefix = None
    /\ remove_empty_wal_files = FALSE
    /\ running = 0
    /\ listing = Listing(MaxWalLen)
    /\ horizon = MaxClock * SleepMs
    /\ IdleCompaction /\ IdleMeta

Init ==
    \/ InitForceCompaction
    \/ InitForceCompactionCf
    \/ InitLongWait
    \/ InitFetchMeta
    \/ InitTuneOptions

Next ==
    \/ ListCf
    \/ OpenCf
    \/ Resolve
    \/ IssueCompaction
    \/ StartWait
    \/ PollFirst
    \/ PollSecond
    \/ SleepAndLog
    \/ ReadDir
    \/ ScanEntry
    \/ EngineStart
    \/ EngineFinish
    \/ FetchMeta
    \/ TuneOptions

Spec == Init /\ [][Next]_vars

\* The compaction calls alone, with the calling thread kept running: the
\* thread is scheduled and std::thread::sleep returns, so a step of the call
\* that stays possible is eventually taken.
Caller ==
    \/ ListCf
    \/ OpenCf
    \/ Resolve
    \/ IssueCompaction
    \/ StartWait
    \/ PollFirst
    \/ PollSecond
    \/ SleepAndLog
    \/ ReadDir
    \/ ScanEntry

\* every requested name resolves in this database, as C9 supposes
InitLive ==
    /\ InitForceCompaction \/ InitForceCompactionCf
    /\ dbCfNames = <<"default", "foo", "bar">>

NextLive ==
    \/ ListCf
    \/ OpenCf
    \/ Resolve
    \/ IssueCompaction
    \/ StartWait
    \/ PollFirst
    \/ PollSecond
    \/ SleepAndLog
    \/ ReadDir
    \/ ScanEntry
    \/ EngineStart
    \/ EngineFinish

LiveSpec == InitLive /\ [][NextLive]_vars /\ WF_vars(Caller)

\* ------------------------------------------------------------------ claims
Compacting == op \in {"force_compaction", "force_compaction_cf"}
ReturnedOk == pc = "done" /\ result.kind = "Ok"
Waited == polled /\ now > compaction_start

\* C1: whenever force_compaction or force_compaction_cf returns Ok, the
\* engine's pending counter and running counter are both zero, however the
\* background threads interleave with the two counter reads.
C1_CountersZeroOnOk ==
    (Compacting /\ ReturnedOk) => (pending = 0 /\ running = 0)

\* a call that issued two requests, waited for the engine and returned Ok
C1_Witness ==
    /\ Compacting /\ ReturnedOk
    /\ Len(issued) >= 2
    /\ Waited

\* C2: a cf_names list with a name the database does not have makes
\* force_compaction_cf return ColumnFamily(first such name); no compaction
\* request is issued for any name, no counter is polled, no file is deleted.
IsMissing(i) == cf_names[i] \notin Range(dbCfNames)
HasMissing == \E i \in 1..Len(cf_names) : IsMissing(i)
FirstMissing ==
    cf_names[CHOOSE i \in 1..Len(cf_names) :
                IsMissing(i) /\ \A j \in 1..(i - 1) : ~IsMissing(j)]

C2_MissingNameFailsFast ==
    (op = "force_compaction_cf" /\ HasMissing) =>
        /\ issued = <<>>
        /\ pending = 0
        /\ ~polled
        /\ ~dirListed
        /\ removed = {}
        /\ files = listing
        /\ pc \in {"resolve", "done"}
        /\ pc = "done" => result = Err("ColumnFamily", FirstMissing)

\* the missing name comes second, after a name that resolves
C2_Witness ==
    /\ op = "force_compaction_cf"
    /\ pc = "done"
    /\ Len(cf_names) = 2
    /\ ~IsMissing(1)
    /\ IsMissing(2)
    /\ result.kind = "Err"

\* C3: the only files ever removed are entries directly under the database
\* directory named <stem>.log whose length was 0; log files that are not
\* empty and files with another extension stay as they were.
EndsInDotLog(name) ==
    /\ Len(name) >= 3
    /\ name[Len(name)] = "log"
    /\ name[Len(name) - 1] = "."

C3_OnlyEmptyWalRemoved ==
    /\ \A f \in removed :
         /\ f \in listing
         /\ f.dir = ""
         /\ EndsInDotLog(f.name)
         /\ f.len = 0
    /\ files = listing \ removed
    /\ \A f \in listing :
         (~EndsInDotLog(f.name) \/ f.len # 0 \/ f.dir # "") => f \in files

\* cleanup ran to the end, removed a file and met a log file that is not empty
C3_Witness ==
    /\ Compacting /\ ReturnedOk
    /\ remove_empty_wal_files
    /\ removed # {}
    /\ \E f \in files : EndsInDotLog(f.name) /\ f.len > 0 /\ f.dir = ""

\* C4: the wait loop is left normally only on a poll that read 0 for the
\* pending counter and 0 for the running counter; there is no timeout, so a
\* call whose every poll reads a counter above 0 does not return.
LeftLoopNormally ==
    /\ Compacting
    /\ polled
    /\ pc \in {"read_dir", "scan", "done"}
    /\ failure # "property"

C4_ExitOnlyOnZeroZero ==
    /\ LeftLoopNormally =>
         (reads[COMPACTION_PENDING] = 0 /\ reads[NUM_RUNNING_COMPACTIONS] = 0)
    /\ (Compacting /\ ReturnedOk) => LeftLoopNormally

\* the loop was left after the engine had been busy for nearly all of the
\* long wait
C4_Witness ==
    /\ LeftLoopNormally
    /\ now - compaction_start >= (MaxLongWait - 1) * SleepMs

\* C5 (as claimed): every engine or filesystem failure ends the call with one
\* of the eight Error variants.
C5_EveryFailureIsAnError ==
    failure # "none" =>
        (pc = "done" /\ result.kind = "Err" /\ result.variant \in ErrorVariants)

\* C5 (amended): every engine or filesystem failure ends the call at once (no
\* step of the call is enabled once pc is "done"): with one of the eight Error
\* variants, except that a failure to read a directory entry during the WAL
\* cleanup ends it with a panic; a call that met no failure ends with Ok.
FailureVariants(why) ==
    CASE why \in {"list_cf", "open"} -> {"Open"}
      [] why = "cf_handle" -> {"ColumnFamily", "UnknownColumnFamily"}
      [] why = "property" -> {"PropertyAccess", "PropertyNotSet"}
      [] why \in {"read_dir", "metadata", "remove_file"} -> {"WalRemoval"}
      [] why = "get_cf" -> {"ReadData"}
      [] why = "from_utf8" -> {"InvalidUtf8"}
      [] OTHER -> {}

C5_FailuresEndTheCall ==
    /\ failure # "none" => pc = "done"
    /\ failure = "dir_entry" => result.kind = "Panic"
    /\ failure \notin {"none", "dir_entry"} =>
         (result.kind = "Err" /\ result.variant \in FailureVariants(failure))
    /\ FailureVariants(failure) \subseteq ErrorVariants
    /\ (pc = "done" /\ failure = "none") => result.kind = "Ok"
    /\ (pc # "done") => result = NoResult

\* deleting the second empty log file failed after the first was deleted
C5_Witness ==
    /\ failure = "remove_file"
    /\ removed # {}
    /\ result = Err("WalRemoval", "")

\* C6: with a "meta" column family, a key without a stored value gives
\* Ok(None) whenever the point read itself succeeds; without a "meta" column
\* family every key gives UnknownColumnFamily and no read is made.
HasMeta == "meta" \in Range(dbCfNames)

C6_AbsenceIsNotAnError ==
    (op = "fetch_meta" /\ pc = "done") =>
        /\ (HasMeta /\ store[key] = None /\ failure # "get_cf") =>
             (result.kind = "Ok" /\ fetched = None)
        /\ ~HasMeta =>
             (result = Err("UnknownColumnFamily", "") /\ dbReads = 0)

\* the key asked for holds nothing while the other key holds a value
C6_Witness ==
    /\ op = "fetch_meta" /\ pc = "done"
    /\ HasMeta
    /\ store[key] = None
    /\ \E k \in Keys : store[k] # None
    /\ result.kind = "Ok"

\* C7: a stored value that is valid UTF-8 comes back as Ok(Some(s)) with s the
\* text those bytes encode; one that is not gives InvalidUtf8; the database is
\* never modified.
IsScalar(cp) == cp \in 0..1114111 /\ cp \notin 55296..57343

\* char::encode_utf8
EncodeChar(cp) ==
    IF cp < 128 THEN <<cp>>
    ELSE IF cp < 2048 THEN <<192 + (cp \div 64), 128 + (cp % 64)>>
    ELSE IF cp < 65536
    THEN <<224 + (cp \div 4096), 128 + ((cp \div 64) % 64), 128 + (cp % 64)>>
    ELSE <<240 + (cp \div 262144), 128 + ((cp \div 4096) % 64),
           128 + ((cp \div 64) % 64), 128 + (cp % 64)>>

RECURSIVE Utf8Encode(_)
Utf8Encode(s) == IF s = <<>> THEN <<>> ELSE EncodeChar(Head(s)) \o Utf8Encode(Tail(s))

\* the payload bits of a chunk of one to four bytes
PayloadBits(c) ==
    CASE Len(c) = 1 -> c[1]
      [] Len(c) = 2 -> ((c[1] % 32) * 64) + (c[2] % 64)
      [] Len(c) = 3 -> ((c[1] % 16) * 4096) + ((c[2] % 64) * 64) + (c[3] % 64)
      [] Len(c) = 4 -> ((c[1] % 8) * 262144) + ((c[2] % 64) * 4096)
                       + ((c[3] % 64) * 64) + (c[4] % 64)

\* the bytes are the encoding of some text: they split into chunks, each the
\* encoding of a Unicode scalar value
RECURSIVE IsEncodedText(_)
IsEncodedText(b) ==
    \/ b = <<>>
    \/ \E w \in 1..Min(4, Len(b)) :
         LET c == SubSeq(b, 1, w)
         IN /\ IsScalar(PayloadBits(c))
            /\ EncodeChar(PayloadBits(c)) = c
            /\ IsEncodedText(SubSeq(b, w + 1, Len(b)))

C7_Decoded ==
    (op = "fetch_meta" /\ pc = "done" /\ HasMeta /\ failure # "get_cf"
        /\ store[key] # None) =>
        LET bytes == Unwrap(store[key])
        IN IF IsEncodedText(bytes)
           THEN /\ result.kind = "Ok"
                /\ fetched # None
                /\ \A i \in 1..Len(Unwrap(fetched)) : IsScalar(Unwrap(fetched)[i])
                /\ Utf8Encode(Unwrap(fetched)) = bytes
           ELSE result = Err("InvalidUtf8", "") /\ fetched = None

C7_ValueDecodedStoreKept ==
    /\ []C7_Decoded
    /\ [][op = "fetch_meta" => (store' = store /\ dbCfNames' = dbCfNames)]_vars

\* a value with a char of more than one byte was returned
C7_Witness ==
    /\ op = "fetch_meta" /\ pc = "done"
    /\ result.kind = "Ok"
    /\ fetched # None
    /\ store[key] # None
    /\ Len(Unwrap(fetched)) >= 2
    /\ Len(Unwrap(fetched)) < Len(Unwrap(store[key]))

\* C8: progress messages come at most once per second: each is more than
\* 1000 ms after the one before it, the first more than 1000 ms after the
\* wait began, however many polls happen; without a prefix there is none.
C8_AtMostOncePerSecond ==
    /\ \A i \in 1..Len(log) :
         log[i].at - (IF i = 1 THEN compaction_start ELSE log[i - 1].at) > 1000
    /\ wait_msg_prefix = None => log = <<>>

\* two messages were emitted during one wait
C8_Witness == Len(log) >= 2

\* C9: if every name resolves, every property query answers and no
\* filesystem call fails, and the engine comes to rest with both counters at
\* zero, the call leaves the wait loop and returns Ok.  A wait is followed up
\* to its horizon only: the behaviours set aside are those in which the
\* horizon is reached in a sleep that a poll which saw work led to.
EngineQuiet == pending = 0 /\ running = 0

SawWork == reads[COMPACTION_PENDING] > 0 \/ reads[NUM_RUNNING_COMPACTIONS] > 0

HorizonReached ==
    pc = "sleep" /\ now + SleepMs - compaction_start > horizon

C9_ReturnsOnceQuiet ==
    (/\ <>[]EngineQuiet
     /\ [](failure = "none")
     /\ [](~(HorizonReached /\ SawWork)))
        => <>(Compacting /\ ReturnedOk)

\* the call waited, with requests issued, until the engine came to rest
C9_Witness ==
    /\ Compacting /\ ReturnedOk
    /\ Waited
    /\ issued # <<>>
    /\ EngineQuiet

\* C10: tune_options is idempotent, tuning a tuned configuration again with
\* the same wal_dir changes no knob, and the tuned configuration has
\* compaction style Universal, write buffer size 2^30, target file size 2^30,
\* 16 background jobs and 8 subcompactions, whatever the base held.
C10_Idempotent ==
    (op = "tune_options" /\ tuneCalls >= 1) =>
        tune_options(options, wal_dir) = options

C10_IdempotentWithKnobs ==
    (op = "tune_options" /\ tuneCalls >= 1) =>
        /\ tune_options(options, wal_dir) = options
        /\ options.compaction_style = "Universal"
        /\ options.write_buffer_size = 2^30
        /\ options.target_file_size_base = 2^30
        /\ options.max_background_jobs = 16
        /\ options.max_subcompactions = 8

\* C11: when every name resolves, one compaction request is issued per entry
\* of cf_names, in the caller's order, each exclusive, over the full key range
\* (no begin, no end) and with bottommost-level compaction forced; all of them
\* are issued before the first counter poll and none after it.
AllResolve == \A i \in 1..Len(cf_names) : ~IsMissing(i)

ExpectedRequests ==
    [i \in 1..Len(cf_names) |->
        [cf |-> cf_names[i], begin |-> <<>>, end |-> <<>>,
         exclusive_manual_compaction |-> TRUE,
         bottommost_level_compaction |-> "Force"]]

PastIssuing == pc \in {"poll_first", "poll_second", "sleep", "read_dir", "scan"}

C11_OneRequestPerName ==
    Compacting =>
        /\ Len(issued) <= Len(cf_names)
        /\ issued = SubSeq(ExpectedRequests, 1, Len(issued))
        /\ (polled \/ PastIssuing) => (AllResolve /\ issued = ExpectedRequests)
        /\ pc = "compact" => ~polled
        /\ (AllResolve /\ pc = "done" /\ op = "force_compaction_cf") =>
             (polled /\ issued = ExpectedRequests)

\* two requests in an order that is not the database's, then polls and sleeps
C11_Witness ==
    /\ op = "force_compaction_cf" /\ pc = "done"
    /\ cf_names = <<"bar", "foo">>
    /\ Len(issued) = 2
    /\ issued[1].cf = "bar" /\ issued[2].cf = "foo"
    /\ Waited

\* C12: on any poll of the wait loop, a property query that errors makes the
\* call return PropertyAccess and one that returns no value makes it return
\* PropertyNotSet with the name of the property that was queried; on such a
\* return no directory was listed and no file deleted, the requests issued
\* stay issued, and the returning step leaves the engine's pending and running
\* work as it was.
QueryFailed == query.outcome \in {"error", "not_set"}

C12_Returned ==
    (Compacting /\ QueryFailed) =>
        /\ pc = "done"
        /\ query.prop \in {"COMPACTION_PENDING", "NUM_RUNNING_COMPACTIONS"}
        /\ query.outcome = "error" => result = Err("PropertyAccess", "")
        /\ query.outcome = "not_set" => result = Err("PropertyNotSet", query.prop)
        /\ ~dirListed
        /\ removed = {}
        /\ files = listing
        /\ issued = ExpectedRequests

C12_PropertyFailureReturns ==
    /\ []C12_Returned
    /\ [][(~QueryFailed /\ QueryFailed') =>
            (issued' = issued /\ pending' = pending /\ running' = running)]_vars

\* the running counter had no value, on a poll after a sleep, with a
\* compaction still running
C12_Witness ==
    /\ Compacting /\ pc = "done"
    /\ query = [prop |-> "NUM_RUNNING_COMPACTIONS", outcome |-> "not_set"]
    /\ result = Err("PropertyNotSet", "NUM_RUNNING_COMPACTIONS")
    /\ issued # <<>>
    /\ running > 0
    /\ now > compaction_start

\* C13: force_compaction returns Open with the path when listing the column
\* families or opening the database fails, having issued no request and
\* deleted no file; otherwise it runs force_compaction_cf on the names found at
\* the path, in the order found, with remove_empty_wal_files = true, and its
\* result is that call's result.
OpenFailed == failure \in {"list_cf", "open"}

C13_OpenOrDelegate ==
    op = "force_compaction" =>
        /\ OpenFailed =>
             /\ pc = "done"
             /\ result = Err("Open", DbPath)
             /\ issued = <<>>
             /\ pending = 0
             /\ ~polled
             /\ ~dirListed
             /\ removed = {}
             /\ files = listing
        /\ (pc \notin {"list_cf", "open"} /\ ~OpenFailed) =>
             /\ cf_names = dbCfNames
             /\ remove_empty_wal_files = TRUE
             /\ cfs \in {<<>>, dbCfNames}
             /\ failure # "cf_handle"
             /\ pc = "done" =>
                  (polled /\ issued = ExpectedRequests
                     /\ (result.kind = "Ok" => toScan = {} /\ dirListed))

\* the column families were listed, then opening the database failed
C13_Witness ==
    /\ op = "force_compaction"
    /\ pc = "done"
    /\ failure = "open"
    /\ cf_names = <<"default", "foo", "bar">>
    /\ result = Err("Open", DbPath)

\* C14 (as claimed): with a prefix, after the wait loop has been waiting for k
\* full seconds, k progress messages have been emitted.
InWaitLoop == Compacting /\ pc \in {"poll_first", "poll_second", "sleep"}
WaitedMs == now - compaction_start

C14_OnePerElapsedSecond ==
    (InWaitLoop /\ IsSome(wait_msg_prefix)) =>
        Len(log) = WaitedMs \div 1000

\* C14 (amended): with a prefix, after each sleep of the wait loop a progress
\* message is emitted exactly when more than 1000 ms have passed on the clock
\* since the last message (or since the wait began); each interval starts
\* when the message before it was emitted, so after k full seconds of waiting
\* at most k messages have been emitted, and there may be fewer.  (The clock
\* of the model advances in the sleep step only, so "after each sleep" reads
\* as: in every state at most 1000 ms lie between last_logged and now.)
C14_AtMostOnePerElapsedSecond ==
    (Compacting /\ IsSome(wait_msg_prefix)) =>
        /\ now - last_logged <= 1000
        /\ Len(log) <= WaitedMs \div 1000
        /\ log # <<>> => Len(log) * 1000 < WaitedMs
        /\ log # <<>> => last_logged = log[Len(log)].at
        /\ log = <<>> => last_logged = compaction_start

\* the loop has waited two full seconds and one message was emitted
C14_Witness ==
    /\ InWaitLoop
    /\ IsSome(wait_msg_prefix)
    /\ WaitedMs >= 2000
    /\ Len(log) = 1

\* C15 (as claimed): the returned configuration has the WAL directory wal_dir
\* when wal_dir is Some, and the default co-located one (no directory set)
\* when wal_dir is None, for every base configuration.
C15_WalDirSetOrDefault ==
    (op = "tune_options" /\ tuneCalls >= 1) =>
        options.wal_dir = (IF IsSome(wal_dir) THEN Unwrap(wal_dir) ELSE "")

\* C15 (amended): the returned configuration has the WAL directory wal_dir
\* when wal_dir is Some; when wal_dir is None it has the WAL directory of the
\* base configuration, which is the default co-located one only if the base
\* had none set.
C15_WalDirSetOrKept ==
    [][(op = "tune_options" /\ tuneCalls' = tuneCalls + 1) =>
         options'.wal_dir =
             (IF IsSome(wal_dir) THEN Unwrap(wal_dir) ELSE options.wal_dir)]_vars

\* tuned without wal_dir, the configuration still has the directory of its base
C15_Witness ==
    /\ op = "tune_options"
    /\ tuneCalls >= 1
    /\ wal_dir = None
    /\ options.wal_dir = "/base/wal"

\* C16: the WAL cleanup starts only after the wait loop was left normally, on
\* a poll that read both counters as zero: before that the directory is not
\* listed and no file is deleted; with remove_empty_wal_files false the
\* directory is never listed and every file, zero-length log files included,
\* stays as it was.
CleanupStarted ==
    \/ dirListed
    \/ pc \in {"read_dir", "scan"}
    \/ toScan # {}
    \/ removed # {}
    \/ files # listing

C16_CleanupAfterLoopOnly ==
    Compacting =>
        /\ CleanupStarted =>
             /\ remove_empty_wal_files
             /\ LeftLoopNormally
             /\ reads[COMPACTION_PENDING] = 0
             /\ reads[NUM_RUNNING_COMPACTIONS] = 0
             /\ query = [prop |-> "NUM_RUNNING_COMPACTIONS", outcome |-> "value"]
        /\ (op = "force_compaction_cf" /\ ~remove_empty_wal_files) =>
             /\ ~CleanupStarted
             /\ \A f \in listing : f \in files

\* a call without cleanup waited and returned Ok; the empty log files are there
C16_Witness ==
    /\ op = "force_compaction_cf"
    /\ ~remove_empty_wal_files
    /\ ReturnedOk
    /\ Waited
    /\ \E f \in files : IsEmptyWal(f) /\ f.dir = ""

\* C17 (as claimed): every poll of the wait loop queries both counters, so
\* when a poll is over and the loop sleeps, the running counter was queried.
C17_BothQueriedEveryPoll ==
    (Compacting /\ pc = "sleep") =>
        /\ query.prop = "NUM_RUNNING_COMPACTIONS"
        /\ reads[NUM_RUNNING_COMPACTIONS] # -1

\* C17 (amended): every poll queries the pending counter; the running counter
\* is queried only on a poll that read the pending counter as zero, so a
\* running-compactions property without a value, or one that errors, fails
\* the call on the first poll that reads the pending counter as zero, and not
\* on a poll that reads it above zero: that poll ends in the sleep.
RunningQueried == query.prop = "NUM_RUNNING_COMPACTIONS"

C17_RunningQueriedAfterZeroPending ==
    Compacting =>
        /\ polled => reads[COMPACTION_PENDING] # -1 \/ QueryFailed
        /\ (pc = "poll_second" \/ RunningQueried) => reads[COMPACTION_PENDING] = 0
        /\ (RunningQueried /\ QueryFailed) =>
             (pc = "done" /\ failure = "property" /\ reads[NUM_RUNNING_COMPACTIONS] = -1)
        /\ (pc = "sleep" /\ reads[COMPACTION_PENDING] > 0) =>
             /\ query = [prop |-> "COMPACTION_PENDING", outcome |-> "value"]
             /\ reads[NUM_RUNNING_COMPACTIONS] = -1
             /\ failure = "none"

\* the first poll read the pending counter above zero and went to sleep with
\* the running counter not queried
C17_Witness ==
    /\ Compacting /\ pc = "sleep"
    /\ now = compaction_start
    /\ log = <<>>
    /\ reads[COMPACTION_PENDING] > 0
    /\ reads[NUM_RUNNING_COMPACTIONS] = -1
    /\ running > 0

====
